---- MODULE Spec2Model ----
(***************************************************************************)
(* gitlab-hud: the incremental synchronisation engine (load_merge_requests *)
(* over the diskcache indexes "control" and "mrs"), the derivation layer   *)
(* (get_last_update, is_important), the converter behind the Record Store, *)
(* the view of display_hud and the branches of main, all of                *)
(* src/src/gitlab_hud/hud.py.                                              *)
(*                                                                         *)
(* Spec is the engine over small feeds and a feed of 51 requests, SpecFull *)
(* the engine over a feed of 50, SpecMain the branches of main, SpecView   *)
(* the table of display_hud over feeds of mixed requests, SpecDerive the   *)
(* derivation layer and SpecStore the Record Store on single snapshots,    *)
(* whose texts it writes and reads piece by piece.                         *)
(*                                                                         *)
(* Timestamps are whole seconds since the epoch; MayaDT(0) is 0.  An       *)
(* Optional value is <<>> (None) or <<v>>.  A text is a sequence of        *)
(* one-character strings; the body of a note is never empty.  The remote   *)
(* changes between runs, never while one is reading the feed.              *)
(***************************************************************************)
EXTENDS Integers, Sequences, FiniteSets, TLC

VARIABLES
    feed,            \* remote: the open merge requests, as the list call orders them
    now,             \* remote: the latest timestamp the remote has issued
    nextId,          \* remote: the id the next new merge request gets
    g_config,        \* hud.py:37 the process-wide Config
    control,         \* Index(CONTROL_CACHE): key -> MayaDT
    merge_requests,  \* Index(MR_CACHE): id -> json text of the snapshot
    pc,              \* position of the run of load_merge_requests
    updated_at,      \* local of load_merge_requests (line 272): the watermark W read at the start
    page,            \* fetch_merge_requests: the page last requested (count(start=1))
    buf,             \* fetch_merge_requests: what is left of the page being iterated
    taken,           \* islice: how many items it has handed out
    cache_at,        \* line 284: how many values of the Record Store the cache loop has read
    gl_merge_request,\* loop variable of line 274, <<>> when unset
    merge_request,   \* local of line 277, <<>> when unset
    yielded,         \* what the generator has yielded in this run, in order
    persisted,       \* history: the snapshots this run has written to the Record Store, in order
    store0,          \* history: the Record Store when this run started
    runFeed,         \* history: the feed this run reads
    lastRun,         \* history: summary of the run that ended last
    prevRun,         \* history: summary of the run that ended before it
    credit,          \* history: runs and remote changes the model still allows
    dmr,             \* derivation: the snapshot under evaluation, <<>> when unset
    last_update,     \* derivation: result of get_last_update, <<>> when unset
    important,       \* derivation: result of is_important, <<>> when unset
    reloaded,        \* Record Store: a snapshot read back from its json text, <<>> when unset
    abandoned,       \* history: some run ended without the generator having returned
    overfull,        \* history: some run started with more than 50 requests newer than W
    config_file,     \* the file at CONFIG_PATH: <<>> when absent, else <<its Config>>
    include_drafts,  \* main: the option --include-drafts
    cli_pc,          \* main: where an invocation with --setup or --clear-cache stands
    main_result,     \* main: the branch the last invocation took, or the error it raised
    table            \* display_hud: the rows of the table printed by this invocation, <<>> when none

vars == <<feed, now, nextId, g_config, control, merge_requests, pc, updated_at,
          page, buf, taken, cache_at, gl_merge_request, merge_request, yielded, persisted,
          store0, runFeed, lastRun, prevRun, credit,
          dmr, last_update, important, reloaded, abandoned, overfull,
          config_file, include_drafts, cli_pc, main_result, table>>

syncVars == <<feed, now, nextId, control, merge_requests, pc, updated_at,
              page, buf, taken, cache_at, gl_merge_request, merge_request, yielded, persisted,
              store0, runFeed, lastRun, prevRun, credit, abandoned, overfull>>

deriveVars == <<dmr, last_update, important, reloaded>>

cliVars == <<config_file, include_drafts, cli_pc, main_result, table>>

-----------------------------------------------------------------------------
(* Bounds of the model *)

MaxEvents == 4
MaxCapEvents == 2
MaxFullEvents == 4
MaxInitFeed == 2
MaxEmptyPages == 2
MaxNotes == 2
MaxTouchId == 1
MaxPipelines == 2
MaxMainFeed == 2
MaxMainEvents == 3
MaxViewFeed == 1
MaxViewEvents == 4

(* Program constants *)

CAP == 50
PER_PAGE == 10

-----------------------------------------------------------------------------
(* Data model *)

None == <<>>
Some(v) == <<v>>
IsSet(opt) == opt # <<>>

NL == "\n"

\* the ISO 8601 text of an instant, kept as the instant it stands for, and its parse;
\* iso8601 and from_iso8601 below write and read the characters
Iso(t) == [iso8601 |-> t]
FromIso(s) == s.iso8601

MkUser(handle, n) == [name |-> handle, username |-> handle, id |-> n]

Users == {MkUser("alice", 1), MkUser("bob", 2)}

\* User.from_gitlab
User_from_gitlab(user) == [name |-> user.name, username |-> user.username, id |-> user.id]

\* a raw pipeline and a raw approval state as the remote API returns them
RawPipeline(id, status, t) ==
    [id |-> id, status |-> status, updated_at |-> Iso(t), web_url |-> "pipeline-url"]

RawApprovals(approvers, t) ==
    [approved |-> approvers # <<>>, approved_by |-> [i \in 1..Len(approvers) |-> [user |-> approvers[i]]],
     updated_at |-> Iso(t), id |-> 1]

\* a raw note as the remote API returns it; resolved and resolved_by are Optional
RawNote(system, author, resolvable, resolved, resolved_by, t, body, type) ==
    [system |-> system, author |-> author, resolvable |-> resolvable,
     resolved |-> resolved, resolved_by |-> resolved_by, updated_at |-> Iso(t),
     body |-> body, id |-> 1, noteable_type |-> type]

\* a raw merge request as the remote API returns it, with its sub-resources
RawMRFull(id, t, author, notes, merged, closed, wip, approvals, pipelines, conflicts) ==
    [id |-> id, updated_at |-> Iso(t), author |-> author, notes |-> notes,
     merged_at |-> merged, closed_at |-> closed, work_in_progress |-> wip,
     title |-> "title", references |-> [full |-> "group/project!1"], web_url |-> "mr-url",
     approvals |-> approvals, pipelines |-> pipelines, has_conflicts |-> conflicts]

\* a raw merge request nobody has approved, with one successful pipeline
RawMR(id, t, author, notes, merged, closed, wip) ==
    RawMRFull(id, t, author, notes, merged, closed, wip,
              RawApprovals(<<>>, t), <<RawPipeline(1, "success", t)>>, FALSE)

\* lines 93-105
Pipeline_from_gitlab(pipeline) ==
    [id |-> pipeline.id, status |-> pipeline.status,
     updated_at |-> FromIso(pipeline.updated_at), link |-> pipeline.web_url]

\* lines 120-142: resolved only of a resolvable note, resolved_by only of a resolved one
Note_from_gitlab(note) ==
    LET resolved == IF note.resolvable THEN note.resolved ELSE None
    IN [system |-> note.system, author |-> User_from_gitlab(note.author),
        resolvable |-> note.resolvable,
        resolved |-> resolved,
        resolved_by |-> IF resolved = Some(TRUE)
                        THEN Some(User_from_gitlab(note.resolved_by[1])) ELSE None,
        updated_at |-> FromIso(note.updated_at), body |-> note.body,
        id |-> note.id, type |-> note.noteable_type]

\* lines 152-167
Approvals_from_gitlab(approvals) ==
    [approved |-> approvals.approved,
     approved_by |-> [i \in 1..Len(approvals.approved_by) |->
                         User_from_gitlab(approvals.approved_by[i].user)],
     updated_at |-> FromIso(approvals.updated_at), id |-> approvals.id]

RECURSIVE MapNotes(_)
MapNotes(s) == IF s = <<>> THEN <<>> ELSE <<Note_from_gitlab(Head(s))>> \o MapNotes(Tail(s))

RECURSIVE MapPipelines(_)
MapPipelines(s) ==
    IF s = <<>> THEN <<>> ELSE <<Pipeline_from_gitlab(Head(s))>> \o MapPipelines(Tail(s))

apply_from_iso(maybe) == IF maybe = None THEN None ELSE Some(FromIso(maybe[1]))

MergeRequest_from_gitlab(raw) ==
    [title |-> raw.title, author |-> User_from_gitlab(raw.author),
     ref |-> raw.references.full, link |-> raw.web_url,
     notes |-> MapNotes(raw.notes),
     updated_at |-> FromIso(raw.updated_at),
     closed_at |-> apply_from_iso(raw.closed_at),
     merged_at |-> apply_from_iso(raw.merged_at),
     approvals |-> Approvals_from_gitlab(raw.approvals),
     id |-> raw.id,
     is_draft |-> raw.work_in_progress,
     pipelines |-> MapPipelines(raw.pipelines),
     has_conflicts |-> raw.has_conflicts]

-----------------------------------------------------------------------------
(* The converter of get_converter and the json text written to the Record Store, *)
(* as the runs of the engine keep them: a text is kept as the value it encodes.   *)
(* Iso, unstructure and json_dumps wrap the value, FromIso, json_loads and        *)
(* structure unwrap it, field by field.  The section after this one writes and   *)
(* reads the texts themselves, and C13 checks on them that reading what was      *)
(* written gives the value kept here.                                            *)

unstructure_opt(maybe) == IF maybe = None THEN None ELSE Some(Iso(maybe[1]))
structure_opt(maybe) == IF maybe = None THEN None ELSE Some(FromIso(maybe[1]))

unstructure_note(n) ==
    [system |-> n.system, author |-> n.author, resolvable |-> n.resolvable,
     resolved |-> n.resolved, resolved_by |-> n.resolved_by,
     updated_at |-> Iso(n.updated_at), body |-> n.body, id |-> n.id, type |-> n.type]

structure_note(o) ==
    [system |-> o.system, author |-> o.author, resolvable |-> o.resolvable,
     resolved |-> o.resolved, resolved_by |-> o.resolved_by,
     updated_at |-> FromIso(o.updated_at), body |-> o.body, id |-> o.id, type |-> o.type]

unstructure_pipeline(q) ==
    [id |-> q.id, status |-> q.status, updated_at |-> Iso(q.updated_at), link |-> q.link]

structure_pipeline(o) ==
    [id |-> o.id, status |-> o.status, updated_at |-> FromIso(o.updated_at), link |-> o.link]

unstructure_approvals(a) ==
    [approved |-> a.approved, approved_by |-> a.approved_by,
     updated_at |-> Iso(a.updated_at), id |-> a.id]

structure_approvals(o) ==
    [approved |-> o.approved, approved_by |-> o.approved_by,
     updated_at |-> FromIso(o.updated_at), id |-> o.id]

RECURSIVE unstructure_notes(_)
unstructure_notes(s) ==
    IF s = <<>> THEN <<>> ELSE <<unstructure_note(Head(s))>> \o unstructure_notes(Tail(s))

RECURSIVE structure_notes(_)
structure_notes(s) ==
    IF s = <<>> THEN <<>> ELSE <<structure_note(Head(s))>> \o structure_notes(Tail(s))

RECURSIVE unstructure_pipelines(_)
unstructure_pipelines(s) ==
    IF s = <<>> THEN <<>>
    ELSE <<unstructure_pipeline(Head(s))>> \o unstructure_pipelines(Tail(s))

RECURSIVE structure_pipelines(_)
structure_pipelines(s) ==
    IF s = <<>> THEN <<>> ELSE <<structure_pipeline(Head(s))>> \o structure_pipelines(Tail(s))

unstructure(mr) ==
    [title |-> mr.title, author |-> mr.author, ref |-> mr.ref, link |-> mr.link,
     notes |-> unstructure_notes(mr.notes),
     updated_at |-> Iso(mr.updated_at),
     merged_at |-> unstructure_opt(mr.merged_at),
     closed_at |-> unstructure_opt(mr.closed_at),
     approvals |-> unstructure_approvals(mr.approvals),
     id |-> mr.id,
     is_draft |-> mr.is_draft,
     pipelines |-> unstructure_pipelines(mr.pipelines),
     has_conflicts |-> mr.has_conflicts]

structure(o) ==
    [title |-> o.title, author |-> o.author, ref |-> o.ref, link |-> o.link,
     notes |-> structure_notes(o.notes),
     updated_at |-> FromIso(o.updated_at),
     merged_at |-> structure_opt(o.merged_at),
     closed_at |-> structure_opt(o.closed_at),
     approvals |-> structure_approvals(o.approvals),
     id |-> o.id,
     is_draft |-> o.is_draft,
     pipelines |-> structure_pipelines(o.pipelines),
     has_conflicts |-> o.has_conflicts]

json_dumps(o) == [json |-> o]
json_loads(text) == text.json

-----------------------------------------------------------------------------
(* The texts themselves.  A text is a sequence of pieces; a piece is one        *)
(* character or a word, a run of characters that json and ISO 8601 write as     *)
(* they are.  The runs of the engine above keep a stored text as the value it   *)
(* decodes to; the definitions below write and read it piece by piece.          *)

QUOTE == "\""

BACKSLASH == "\\"

Digits == <<"0", "1", "2", "3", "4", "5", "6", "7", "8", "9">>

is_digit(c) == \E n \in 0..9 : Digits[n + 1] = c

digit_value(c) == CHOOSE n \in 0..9 : Digits[n + 1] = c

\* str(n) of a natural number
RECURSIVE str_int(_)
str_int(n) == IF n < 10 THEN <<Digits[n + 1]>> ELSE str_int(n \div 10) \o <<Digits[(n % 10) + 1]>>

\* '%0<width>d' % n
RECURSIVE zero_padded(_, _)
zero_padded(n, width) ==
    IF width = 0 THEN <<>> ELSE zero_padded(n \div 10, width - 1) \o <<Digits[(n % 10) + 1]>>

\* int(text) of a run of digits
RECURSIVE int_str(_)
int_str(text) ==
    IF text = <<>> THEN 0
    ELSE 10 * int_str(SubSeq(text, 1, Len(text) - 1)) + digit_value(text[Len(text)])

\* the proleptic Gregorian calendar of datetime
is_leap(y) == (y % 4 = 0 /\ y % 100 # 0) \/ y % 400 = 0

days_in_year(y) == IF is_leap(y) THEN 366 ELSE 365

days_in_month(y, m) ==
    IF m = 2 THEN (IF is_leap(y) THEN 29 ELSE 28)
    ELSE IF m \in {4, 6, 9, 11} THEN 30 ELSE 31

\* the year that holds the day d days after the first of January of year y, and
\* the number of that day in it, from 0
RECURSIVE year_after(_, _)
year_after(y, d) ==
    IF d >= days_in_year(y) THEN year_after(y + 1, d - days_in_year(y))
    ELSE [year |-> y, day |-> d]

\* the date of the day d days after the first of month m of year y, in that year
RECURSIVE date_after(_, _, _)
date_after(y, m, d) ==
    IF d >= days_in_month(y, m) THEN date_after(y, m + 1, d - days_in_month(y, m))
    ELSE [year |-> y, month |-> m, day |-> d + 1]

\* date.fromordinal, counted from the first of January 1970
date_of(days) == date_after(year_after(1970, days).year, 1, year_after(1970, days).day)

\* the days from the first of January 1970 to the first of January of year y
RECURSIVE days_before_year(_)
days_before_year(y) ==
    IF y > 1970 THEN days_before_year(y - 1) + days_in_year(y - 1) ELSE 0

\* the days from the first of January of year y to the first of its month m
RECURSIVE days_before_month(_, _)
days_before_month(y, m) ==
    IF m > 1 THEN days_before_month(y, m - 1) + days_in_month(y, m - 1) ELSE 0

\* an hour written on a twelve-hour clock
hour_12(t) == ((t % 86400) \div 3600) % 12

hour(t) == (t % 86400) \div 3600

minute(t) == (t % 3600) \div 60

second(t) == t % 60

\* datetime.isoformat() of the naive UTC datetime of a whole second
isoformat(t) ==
    LET date == date_of(t \div 86400)
    IN zero_padded(date.year, 4) \o <<"-">> \o zero_padded(date.month, 2) \o <<"-">>
       \o zero_padded(date.day, 2) \o <<"T">> \o zero_padded(hour(t), 2) \o <<":">>
       \o zero_padded(minute(t), 2) \o <<":">> \o zero_padded(second(t), 2)

\* maya.MayaDT.iso8601, the unstructure hook of line 312
iso8601(t) == isoformat(t) \o <<"Z">>

\* maya.MayaDT.from_iso8601, the structure hook of lines 313-315, on
\* YYYY-MM-DDTHH:MM:SSZ
from_iso8601(text) ==
    LET y == int_str(SubSeq(text, 1, 4))
        m == int_str(SubSeq(text, 6, 7))
        d == int_str(SubSeq(text, 9, 10))
        hh == int_str(SubSeq(text, 12, 13))
        mm == int_str(SubSeq(text, 15, 16))
        ss == int_str(SubSeq(text, 18, 19))
    IN (days_before_year(y) + days_before_month(y, m) + d - 1) * 86400
       + hh * 3600 + mm * 60 + ss

\* the values json can write, each with its Python type
PyNone == [t |-> "NoneType", v |-> 0]
PyBool(b) == [t |-> "bool", v |-> b]
PyInt(n) == [t |-> "int", v |-> n]
PyStr(text) == [t |-> "str", v |-> text]
PyList(items) == [t |-> "list", v |-> items]
PyDict(items) == [t |-> "dict", v |-> items]

\* a str of the model that is one word, as a text and back
text_of(word) == IF word = "" THEN <<>> ELSE <<word>>
word_of(text) == IF text = <<>> THEN "" ELSE text[1]

item(key, value) == [key |-> text_of(key), value |-> value]

\* d[key]
getitem(d, key) ==
    d.v[CHOOSE i \in 1..Len(d.v) : d.v[i].key = text_of(key)].value

\* json's encoding of the characters of a string: the quote, the backslash, the newline
RECURSIVE escape(_)
escape(text) ==
    IF text = <<>> THEN <<>>
    ELSE (IF Head(text) = QUOTE THEN <<BACKSLASH, QUOTE>>
          ELSE IF Head(text) = BACKSLASH THEN <<BACKSLASH, BACKSLASH>>
          ELSE IF Head(text) = NL THEN <<BACKSLASH, "n">>
          ELSE <<Head(text)>>) \o escape(Tail(text))

dumps_str(text) == <<QUOTE>> \o escape(text) \o <<QUOTE>>

RECURSIVE spaces(_)
spaces(n) == IF n = 0 THEN <<>> ELSE <<" ">> \o spaces(n - 1)

\* what json writes before an item at a level: nothing without indent, else a new
\* line and indent spaces for each level
newline_indent(indent, level) ==
    IF indent = None THEN <<>> ELSE <<NL>> \o spaces(indent[1] * level)

\* what json writes between two items
item_separator(indent, level) ==
    IF indent = None THEN <<",", " ">> ELSE <<",">> \o newline_indent(indent, level)

\* json.dumps(o, indent=indent) of a value at a level of nesting
RECURSIVE dumps_value(_, _, _)
RECURSIVE dumps_items(_, _, _)
RECURSIVE dumps_pairs(_, _, _)
dumps_value(o, indent, level) ==
    IF o.t = "NoneType" THEN <<"null">>
    ELSE IF o.t = "bool" THEN <<IF o.v THEN "true" ELSE "false">>
    ELSE IF o.t = "int" THEN str_int(o.v)
    ELSE IF o.t = "str" THEN dumps_str(o.v)
    ELSE IF o.t = "list"
         THEN IF o.v = <<>> THEN <<"[", "]">>
              ELSE <<"[">> \o newline_indent(indent, level + 1)
                   \o dumps_items(o.v, indent, level + 1)
                   \o newline_indent(indent, level) \o <<"]">>
    ELSE IF o.v = <<>> THEN <<"{", "}">>
         ELSE <<"{">> \o newline_indent(indent, level + 1)
              \o dumps_pairs(o.v, indent, level + 1)
              \o newline_indent(indent, level) \o <<"}">>

dumps_items(items, indent, level) ==
    IF Len(items) = 1 THEN dumps_value(items[1], indent, level)
    ELSE dumps_value(items[1], indent, level) \o item_separator(indent, level)
         \o dumps_items(Tail(items), indent, level)

dumps_pairs(items, indent, level) ==
    LET first == dumps_str(items[1].key) \o <<":", " ">>
                 \o dumps_value(items[1].value, indent, level)
    IN IF Len(items) = 1 THEN first
       ELSE first \o item_separator(indent, level) \o dumps_pairs(Tail(items), indent, level)

\* json.dumps(o)
dumps(o) == dumps_value(o, None, 0)

is_whitespace(c) == c = " " \/ c = NL

\* the first position from i on that holds no whitespace
RECURSIVE skip_whitespace(_, _)
skip_whitespace(text, i) ==
    IF i <= Len(text) /\ is_whitespace(text[i]) THEN skip_whitespace(text, i + 1) ELSE i

\* what an escape stands for: \n the newline, \" the quote, \\ the backslash
unescaped(c) == IF c = "n" THEN NL ELSE c

\* the characters of a string from i, which follows its opening quote, up to the
\* closing quote; i of the result is the position after it
RECURSIVE scan_string(_, _, _)
scan_string(text, i, acc) ==
    IF text[i] = QUOTE THEN [v |-> acc, i |-> i + 1]
    ELSE IF text[i] = BACKSLASH
         THEN scan_string(text, i + 2, Append(acc, unescaped(text[i + 1])))
    ELSE scan_string(text, i + 1, Append(acc, text[i]))

RECURSIVE scan_int(_, _, _)
scan_int(text, i, n) ==
    IF i <= Len(text) /\ is_digit(text[i])
    THEN scan_int(text, i + 1, 10 * n + digit_value(text[i]))
    ELSE [v |-> n, i |-> i]

\* json's scanner: the value that starts at i and the position after it
RECURSIVE scan_value(_, _)
RECURSIVE scan_items(_, _, _)
RECURSIVE scan_pairs(_, _, _)
scan_value(text, at) ==
    LET i == skip_whitespace(text, at)
    IN IF text[i] = "null" THEN [v |-> PyNone, i |-> i + 1]
       ELSE IF text[i] = "true" THEN [v |-> PyBool(TRUE), i |-> i + 1]
       ELSE IF text[i] = "false" THEN [v |-> PyBool(FALSE), i |-> i + 1]
       ELSE IF text[i] = QUOTE
            THEN LET r == scan_string(text, i + 1, <<>>) IN [v |-> PyStr(r.v), i |-> r.i]
       ELSE IF text[i] = "["
            THEN LET j == skip_whitespace(text, i + 1)
                 IN IF text[j] = "]" THEN [v |-> PyList(<<>>), i |-> j + 1]
                    ELSE scan_items(text, j, <<>>)
       ELSE IF text[i] = "{"
            THEN LET j == skip_whitespace(text, i + 1)
                 IN IF text[j] = "}" THEN [v |-> PyDict(<<>>), i |-> j + 1]
                    ELSE scan_pairs(text, j, <<>>)
       ELSE LET r == scan_int(text, i, 0) IN [v |-> PyInt(r.v), i |-> r.i]

scan_items(text, at, acc) ==
    LET r == scan_value(text, at)
        j == skip_whitespace(text, r.i)
    IN IF text[j] = "," THEN scan_items(text, j + 1, Append(acc, r.v))
       ELSE [v |-> PyList(Append(acc, r.v)), i |-> j + 1]

scan_pairs(text, at, acc) ==
    LET i == skip_whitespace(text, at)
        k == scan_string(text, i + 1, <<>>)
        colon == skip_whitespace(text, k.i)
        r == scan_value(text, colon + 1)
        j == skip_whitespace(text, r.i)
        items == Append(acc, [key |-> k.v, value |-> r.v])
    IN IF text[j] = "," THEN scan_pairs(text, j + 1, items)
       ELSE [v |-> PyDict(items), i |-> j + 1]

\* json.loads raises JSONDecodeError on a text that holds no value at all
JSONDecodeError(text) == skip_whitespace(text, 1) > Len(text)

\* json.loads(text)
loads(text) == scan_value(text, 1).v

\* the functions a GenConverter makes for a class: a mapping of the fields in the
\* order of the class, each unstructured by the hook of its type, and back by key
unstructure_MayaDT(t) == PyStr(iso8601(t))
structure_MayaDT(o) == from_iso8601(o.v)

unstructure_word(word) == PyStr(text_of(word))
structure_word(o) == word_of(o.v)

unstructure_bool(b) == PyBool(b)
structure_bool(o) == o.v

unstructure_User(u) ==
    PyDict(<<item("name", unstructure_word(u.name)),
             item("username", unstructure_word(u.username)),
             item("id", PyInt(u.id))>>)

structure_User(o) ==
    [name |-> structure_word(getitem(o, "name")),
     username |-> structure_word(getitem(o, "username")),
     id |-> getitem(o, "id").v]

\* Optional[T] for the types T the classes use: None stays None, any other value
\* goes through the hook of T
unstructure_Optional(maybe, cl) ==
    IF maybe = None THEN PyNone
    ELSE CASE cl = "bool" -> unstructure_bool(maybe[1])
           [] cl = "str" -> unstructure_word(maybe[1])
           [] cl = "MayaDT" -> unstructure_MayaDT(maybe[1])
           [] cl = "User" -> unstructure_User(maybe[1])

structure_Optional(o, cl) ==
    IF o.t = "NoneType" THEN None
    ELSE CASE cl = "bool" -> Some(structure_bool(o))
           [] cl = "str" -> Some(structure_word(o))
           [] cl = "MayaDT" -> Some(structure_MayaDT(o))
           [] cl = "User" -> Some(structure_User(o))

unstructure_Pipeline(q) ==
    PyDict(<<item("id", PyInt(q.id)), item("status", unstructure_word(q.status)),
             item("updated_at", unstructure_MayaDT(q.updated_at)),
             item("link", unstructure_word(q.link))>>)

structure_Pipeline(o) ==
    [id |-> getitem(o, "id").v, status |-> structure_word(getitem(o, "status")),
     updated_at |-> structure_MayaDT(getitem(o, "updated_at")),
     link |-> structure_word(getitem(o, "link"))]

unstructure_Note(n) ==
    PyDict(<<item("system", PyBool(n.system)), item("author", unstructure_User(n.author)),
             item("resolvable", PyBool(n.resolvable)),
             item("resolved", unstructure_Optional(n.resolved, "bool")),
             item("resolved_by", unstructure_Optional(n.resolved_by, "User")),
             item("updated_at", unstructure_MayaDT(n.updated_at)),
             item("body", PyStr(n.body)), item("id", PyInt(n.id)),
             item("type", unstructure_Optional(n.type, "str"))>>)

structure_Note(o) ==
    [system |-> getitem(o, "system").v, author |-> structure_User(getitem(o, "author")),
     resolvable |-> getitem(o, "resolvable").v,
     resolved |-> structure_Optional(getitem(o, "resolved"), "bool"),
     resolved_by |-> structure_Optional(getitem(o, "resolved_by"), "User"),
     updated_at |-> structure_MayaDT(getitem(o, "updated_at")),
     body |-> getitem(o, "body").v, id |-> getitem(o, "id").v,
     type |-> structure_Optional(getitem(o, "type"), "str")]

\* List[T] for the types T the classes use: the hook of T on every element
unstructure_List(s, cl) ==
    PyList([i \in 1..Len(s) |->
        CASE cl = "User" -> unstructure_User(s[i])
          [] cl = "Note" -> unstructure_Note(s[i])
          [] cl = "Pipeline" -> unstructure_Pipeline(s[i])])

structure_List(o, cl) ==
    [i \in 1..Len(o.v) |->
        CASE cl = "User" -> structure_User(o.v[i])
          [] cl = "Note" -> structure_Note(o.v[i])
          [] cl = "Pipeline" -> structure_Pipeline(o.v[i])]

unstructure_Approvals(a) ==
    PyDict(<<item("approved", PyBool(a.approved)),
             item("approved_by", unstructure_List(a.approved_by, "User")),
             item("updated_at", unstructure_MayaDT(a.updated_at)),
             item("id", PyInt(a.id))>>)

structure_Approvals(o) ==
    [approved |-> getitem(o, "approved").v,
     approved_by |-> structure_List(getitem(o, "approved_by"), "User"),
     updated_at |-> structure_MayaDT(getitem(o, "updated_at")),
     id |-> getitem(o, "id").v]

\* converter.unstructure(merge_request), lines 280 and 309-317
converter_unstructure(mr) ==
    PyDict(<<item("title", unstructure_word(mr.title)),
             item("author", unstructure_User(mr.author)),
             item("ref", unstructure_word(mr.ref)),
             item("link", unstructure_word(mr.link)),
             item("notes", unstructure_List(mr.notes, "Note")),
             item("updated_at", unstructure_MayaDT(mr.updated_at)),
             item("merged_at", unstructure_Optional(mr.merged_at, "MayaDT")),
             item("closed_at", unstructure_Optional(mr.closed_at, "MayaDT")),
             item("approvals", unstructure_Approvals(mr.approvals)),
             item("id", PyInt(mr.id)),
             item("is_draft", PyBool(mr.is_draft)),
             item("pipelines", unstructure_List(mr.pipelines, "Pipeline")),
             item("has_conflicts", PyBool(mr.has_conflicts))>>)

\* converter.structure(loads, MergeRequest), lines 286 and 309-317
converter_structure(o) ==
    [title |-> structure_word(getitem(o, "title")),
     author |-> structure_User(getitem(o, "author")),
     ref |-> structure_word(getitem(o, "ref")),
     link |-> structure_word(getitem(o, "link")),
     notes |-> structure_List(getitem(o, "notes"), "Note"),
     updated_at |-> structure_MayaDT(getitem(o, "updated_at")),
     merged_at |-> structure_Optional(getitem(o, "merged_at"), "MayaDT"),
     closed_at |-> structure_Optional(getitem(o, "closed_at"), "MayaDT"),
     approvals |-> structure_Approvals(getitem(o, "approvals")),
     id |-> getitem(o, "id").v,
     is_draft |-> getitem(o, "is_draft").v,
     pipelines |-> structure_List(getitem(o, "pipelines"), "Pipeline"),
     has_conflicts |-> getitem(o, "has_conflicts").v]

-----------------------------------------------------------------------------
(* The two persistent indexes *)

\* Python's max(a, b): b only when b > a
py_max(a, b) == IF b > a THEN b ELSE a

\* control.setdefault("updated_at", maya.MayaDT(0))
control_setdefault(c) ==
    IF "updated_at" \in DOMAIN c THEN c ELSE [k \in {"updated_at"} |-> 0]

\* control.get("updated_at", maya.MayaDT(0))
control_get(c) == IF "updated_at" \in DOMAIN c THEN c["updated_at"] ELSE 0

\* a write that leaves the stored watermark as it is
advance_watermark_skipped(c, mr) == c

\* a write that stores the snapshot's timestamp without the max
advance_watermark_overwrite(c, mr) == [c EXCEPT !["updated_at"] = mr.updated_at]

\* line 278: control["updated_at"] = max(control["updated_at"], merge_request.updated_at)
advance_watermark(c, mr) ==
    [c EXCEPT !["updated_at"] = py_max(c["updated_at"], mr.updated_at)]

\* An Index keeps its entries in the order their keys were first set: an entry is a
\* row [rowid, value], a new key gets the next rowid, a key set again keeps its own.
row_of(store, k, text) ==
    [rowid |-> IF k \in DOMAIN store THEN store[k].rowid ELSE Cardinality(DOMAIN store) + 1,
     value |-> text]

\* a put that replaces the whole mapping by the one entry
store_put_only(store, mr) ==
    [k \in {mr.id} |-> [rowid |-> 1, value |-> json_dumps(unstructure(mr))]]

\* Index.__setitem__: merge_requests[k] = text
store_set(store, k, text) ==
    [j \in DOMAIN store \cup {k} |-> IF j = k THEN row_of(store, k, text) ELSE store[j]]

\* lines 279-281: merge_requests[merge_request.id] = json.dumps(converter.unstructure(...))
store_put(store, mr) == store_set(store, mr.id, json_dumps(unstructure(mr)))

\* the snapshot the Record Store holds under key k
stored(store, k) == structure(json_loads(store[k].value))

\* merge_requests.values(): the n-th value, in the order of the rows
value_at(store, n) == store[CHOOSE k \in DOMAIN store : store[k].rowid = n].value

-----------------------------------------------------------------------------
(* The remote feed *)

\* project.mergerequests.list(page=p, per_page=10, ...): past the end, the empty page
list_page(f, p) ==
    SubSeq(f, (p - 1) * PER_PAGE + 1,
           IF p * PER_PAGE < Len(f) THEN p * PER_PAGE ELSE Len(f))

Ts(raw) == FromIso(raw.updated_at)

SortedDesc(f) == \A i \in 1..(Len(f) - 1) : Ts(f[i]) >= Ts(f[i + 1])

DistinctIds(f) == \A i, j \in 1..Len(f) : i # j => f[i].id # f[j].id

Alice == MkUser("alice", 1)

Bob == MkUser("bob", 2)

PlainMR(id, t) == RawMR(id, t, Bob, <<>>, None, None, FALSE)

\* n open requests, request i last updated at time i, newest first
InitFeed(n) == [i \in 1..n |-> PlainMR(n + 1 - i, n + 1 - i)]

InitSizes == (0..MaxInitFeed) \cup {CAP + 1}

Remove(f, i) == SubSeq(f, 1, i - 1) \o SubSeq(f, i + 1, Len(f))

-----------------------------------------------------------------------------
(* The derivation layer: MergeRequest.get_last_update and is_important *)

\* a note counted as relevant whatever its flags
_is_relevant_any(note) == TRUE

\* lines 219-220
_is_relevant(note) == note.resolvable \/ note.system

\* line 222: list(filter(_is_relevant, self.notes))
relevant_notes(mr) == SelectSeq(mr.notes, _is_relevant)

\* a selection that takes the first note instead of the newest
first_note(s) == s[1]

\* line 231: max(relevant_notes, key=attrgetter("updated_at")), the first of the maximal
RECURSIVE max_from(_, _)
max_from(best, rest) ==
    IF rest = <<>> THEN best
    ELSE max_from(IF Head(rest).updated_at > best.updated_at THEN Head(rest) ELSE best,
                  Tail(rest))

max_by_updated_at(s) == max_from(s[1], Tail(s))

IndexOfNL(text) ==
    IF \E i \in 1..Len(text) : text[i] = NL
    THEN CHOOSE i \in 1..Len(text) : text[i] = NL /\ \A j \in 1..(i - 1) : text[j] # NL
    ELSE 0

\* str.splitlines() for texts whose only line boundary is "\n"
RECURSIVE splitlines(_)
splitlines(text) ==
    IF text = <<>> THEN <<>>
    ELSE IF IndexOfNL(text) = 0 THEN <<text>>
    ELSE <<SubSeq(text, 1, IndexOfNL(text) - 1)>>
         \o splitlines(SubSeq(text, IndexOfNL(text) + 1, Len(text)))

\* lines 232-234
note_content(note) == IF note.system THEN splitlines(note.body)[1] ELSE note.body

MR_CREATED == <<"M", "R", " ", "C", "r", "e", "a", "t", "e", "d">>

\* lines 218-240
get_last_update(mr) ==
    IF relevant_notes(mr) = <<>>
    THEN [author |-> mr.author, content |-> MR_CREATED, updated_at |-> mr.updated_at]
    ELSE LET last_note == max_by_updated_at(relevant_notes(mr))
         IN [author |-> last_note.author, content |-> note_content(last_note),
             updated_at |-> last_note.updated_at]

\* an importance test that forgets closed requests
is_important_unless_merged(mr, me) ==
    IF IsSet(mr.merged_at) THEN FALSE
    ELSE get_last_update(mr).author.username # me

\* lines 246-253; a MayaDT is truthy, so "merged_at or closed_at" is "either is set"
is_important(mr, me) ==
    IF IsSet(mr.merged_at) \/ IsSet(mr.closed_at) THEN FALSE
    ELSE IF get_last_update(mr).author.username # me THEN TRUE
    ELSE FALSE

\* line 47
my_username == g_config.my_username

-----------------------------------------------------------------------------
(* The configuration file and the view of display_hud *)

\* lines 21-24
Config(username, project) == [my_username |-> username, project_id |-> project]

unstructure_Config(c) ==
    PyDict(<<item("my_username", unstructure_word(c.my_username)),
             item("project_id", PyInt(c.project_id))>>)

structure_Config(o) ==
    Config(structure_word(getitem(o, "my_username")), getitem(o, "project_id").v)

\* line 34 on any Config: json.dumps(cattr.unstructure(c), indent=4), the form in
\* which --setup writes the file and the user fills it in
Config_dumps(c) == dumps_value(unstructure_Config(c), Some(4), 0)

\* lines 32-34
generate_default_json == Config_dumps(Config("", 0))

\* lines 26-30: json.load, then structure as a Config
Config_load(text) == structure_Config(loads(text))

\* a filter that lets drafts through whatever the option
keeps_draft_always(mr, drafts) == TRUE

\* line 293: the request is skipped when it is a draft and drafts are not included
keeps_draft(mr, drafts) == ~(mr.is_draft /\ ~drafts)

\* lines 291-296
get_important_mrs(loaded, drafts, me) ==
    LET keep(mr) == keeps_draft(mr, drafts) /\ is_important(mr, me)
    IN SelectSeq(loaded, keep)

\* a sort that leaves the sequence as it came
sorted_as_is(s) == s

\* insert x after the entries at least as recent as it
RECURSIVE insert_desc(_, _)
insert_desc(x, s) ==
    IF s = <<>> THEN <<x>>
    ELSE IF Head(s).updated_at >= x.updated_at THEN <<Head(s)>> \o insert_desc(x, Tail(s))
    ELSE <<x>> \o s

\* lines 353-357: sorted(..., key=attrgetter("updated_at"), reverse=True), which is stable
RECURSIVE sorted_desc(_)
sorted_desc(s) ==
    IF s = <<>> THEN <<>>
    ELSE insert_desc(s[Len(s)], sorted_desc(SubSeq(s, 1, Len(s) - 1)))

-----------------------------------------------------------------------------
(* One run of load_merge_requests, statement by statement *)

InRun == pc # "idle"

BeforeOpen == pc \in {"auth", "project", "open"}

InFetchLoop == pc \in {"next", "check", "convert", "watermark", "put", "yield"}

NoRun == [outcome |-> "none", W |-> 0, at |-> 0, fetched |-> 0]

\* lines 409-410: a new process loads the configuration and enters display_hud; no
\* run is started while --clear-cache is removing the indexes
Start ==
    /\ pc = "idle"
    /\ cli_pc \notin {"rmtree", "control_removed", "mrs_removed"}
    /\ credit > 0
    /\ config_file # None
    /\ ~JSONDecodeError(config_file[1])
    /\ main_result' = "display_hud"
    /\ g_config' = Config_load(config_file[1])
    /\ table' = None
    /\ credit' = credit - 1
    /\ prevRun' = lastRun
    /\ updated_at' = 0
    /\ page' = 0
    /\ buf' = <<>>
    /\ taken' = 0
    /\ cache_at' = 0
    /\ gl_merge_request' = None
    /\ merge_request' = None
    /\ yielded' = <<>>
    /\ persisted' = <<>>
    /\ store0' = <<>>
    /\ runFeed' = <<>>
    /\ pc' = "auth"
    /\ UNCHANGED <<feed, now, nextId, control, merge_requests, lastRun, abandoned, overfull,
                   deriveVars, config_file, include_drafts, cli_pc>>

ConnectFrame == <<feed, now, nextId, g_config, control, merge_requests, updated_at, page,
                  buf, taken, cache_at, gl_merge_request, merge_request, yielded, persisted,
                  store0, runFeed, lastRun, prevRun, credit, abandoned, overfull,
                  deriveVars, cliVars>>

\* lines 340-341: gl.auth() returns
Auth ==
    /\ pc = "auth"
    /\ pc' = "project"
    /\ UNCHANGED ConnectFrame

\* line 343: gl.projects.get(project_id()) returns
GetProject ==
    /\ pc = "project"
    /\ pc' = "open"
    /\ UNCHANGED ConnectFrame

\* lines 269-273, run when sorted() asks the generator for its first item: open the
\* indexes, default and read the watermark
Open ==
    /\ pc = "open"
    /\ control' = control_setdefault(control)
    /\ updated_at' = control_get(control')
    /\ store0' = merge_requests
    /\ runFeed' = feed
    /\ overfull' = (overfull \/ Cardinality({i \in 1..Len(feed) : Ts(feed[i]) > updated_at'}) > CAP)
    /\ pc' = "next"
    /\ UNCHANGED <<feed, now, nextId, g_config, merge_requests, page, buf, taken, cache_at,
                   gl_merge_request, merge_request, yielded, persisted, lastRun, prevRun,
                   credit, abandoned, deriveVars, cliVars>>

LoopFrame == <<feed, now, nextId, g_config, updated_at, cache_at, store0, runFeed, lastRun,
               prevRun, credit, abandoned, overfull, deriveVars, cliVars>>

LastPage(f) == (Len(f) + PER_PAGE - 1) \div PER_PAGE

\* an islice that never stops
islice_unbounded(n) == FALSE

\* line 274: islice(..., 50) stops once it has handed out 50 items
islice_exhausted(n) == n >= CAP

\* line 274: islice has handed out its 50 items and ends the loop
IsliceStop ==
    /\ pc = "next"
    /\ islice_exhausted(taken)
    /\ pc' = "cache"
    /\ UNCHANGED <<control, merge_requests, page, buf, taken, gl_merge_request,
                   merge_request, yielded, persisted>>
    /\ UNCHANGED LoopFrame

\* lines 257-264: the page is used up, fetch_merge_requests lists the next one
ListPage ==
    /\ pc = "next"
    /\ ~islice_exhausted(taken)
    /\ buf = <<>>
    /\ page < LastPage(feed) + MaxEmptyPages
    /\ page' = page + 1
    /\ buf' = list_page(feed, page + 1)
    /\ UNCHANGED <<control, merge_requests, pc, taken, gl_merge_request,
                   merge_request, yielded, persisted>>
    /\ UNCHANGED LoopFrame

\* lines 265, 274: the next raw request reaches the loop body
NextItem ==
    /\ pc = "next"
    /\ ~islice_exhausted(taken)
    /\ buf # <<>>
    /\ gl_merge_request' = Some(Head(buf))
    /\ buf' = Tail(buf)
    /\ taken' = taken + 1
    /\ pc' = "check"
    /\ UNCHANGED <<control, merge_requests, page, merge_request, yielded, persisted>>
    /\ UNCHANGED LoopFrame

\* a cutoff test that also stops at a request one second newer than the watermark
at_cutoff_early(raw, W) == FromIso(raw.updated_at) <= W + 1

\* a cutoff test that lets a request as old as the watermark through
at_cutoff_strict(raw, W) == FromIso(raw.updated_at) < W

\* line 275: the cutoff test
at_cutoff(raw, W) == FromIso(raw.updated_at) <= W

\* lines 275-276
Check ==
    /\ pc = "check"
    /\ pc' = IF at_cutoff(gl_merge_request[1], updated_at) THEN "cache" ELSE "convert"
    /\ UNCHANGED <<control, merge_requests, page, buf, taken, gl_merge_request,
                   merge_request, yielded, persisted>>
    /\ UNCHANGED LoopFrame

\* line 277
Convert ==
    /\ pc = "convert"
    /\ merge_request' = Some(MergeRequest_from_gitlab(gl_merge_request[1]))
    /\ pc' = "watermark"
    /\ UNCHANGED <<control, merge_requests, page, buf, taken, gl_merge_request,
                   yielded, persisted>>
    /\ UNCHANGED LoopFrame

\* line 278
WriteWatermark ==
    /\ pc = "watermark"
    /\ control' = advance_watermark(control, merge_request[1])
    /\ pc' = "put"
    /\ UNCHANGED <<merge_requests, page, buf, taken, gl_merge_request,
                   merge_request, yielded, persisted>>
    /\ UNCHANGED LoopFrame

\* lines 279-281
Put ==
    /\ pc = "put"
    /\ merge_requests' = store_put(merge_requests, merge_request[1])
    /\ persisted' = Append(persisted, merge_request[1])
    /\ pc' = "yield"
    /\ UNCHANGED <<control, page, buf, taken, gl_merge_request, merge_request, yielded>>
    /\ UNCHANGED LoopFrame

\* line 282
Yield ==
    /\ pc = "yield"
    /\ yielded' = Append(yielded, merge_request[1])
    /\ pc' = "next"
    /\ UNCHANGED <<control, merge_requests, page, buf, taken, gl_merge_request,
                   merge_request, persisted>>
    /\ UNCHANGED LoopFrame

\* a cache loop that yields every stored snapshot
from_cache_all(mr, W) == TRUE

\* line 287: a stored snapshot is yielded when the fetch loop did not cover it
from_cache(mr, W) == mr.updated_at <= W

\* the watermark a run ended with: the one it read, or the stored one when it ended
\* before reading it
RunSummary(how) ==
    [outcome |-> how, W |-> IF BeforeOpen THEN control_get(control) ELSE updated_at,
     at |-> now, fetched |-> Len(persisted)]

CacheFrame == <<feed, now, nextId, g_config, control, merge_requests, updated_at,
                page, buf, taken, gl_merge_request, merge_request, persisted,
                store0, runFeed, lastRun, prevRun, credit, abandoned, overfull, deriveVars,
                cliVars>>

\* lines 284-288, one iteration: the next stored value is decoded and structured, and
\* yielded when the fetch loop did not cover it
CacheLoop ==
    /\ pc = "cache"
    /\ cache_at < Cardinality(DOMAIN merge_requests)
    /\ cache_at' = cache_at + 1
    /\ LET mr == structure(json_loads(value_at(merge_requests, cache_at + 1)))
       IN yielded' = IF from_cache(mr, updated_at) THEN Append(yielded, mr) ELSE yielded
    /\ UNCHANGED pc
    /\ UNCHANGED CacheFrame

\* line 284 finds no further value: the generator returns
CacheEnd ==
    /\ pc = "cache"
    /\ cache_at = Cardinality(DOMAIN merge_requests)
    /\ pc' = "render"
    /\ UNCHANGED <<cache_at, yielded>>
    /\ UNCHANGED CacheFrame

\* the rows display_hud is about to add, in order
rows_of(loaded) == sorted_desc(get_important_mrs(loaded, include_drafts, my_username))

\* line 243 raises on a request without pipelines
has_pipeline(mr) == mr.pipelines # <<>>

\* lines 242-243: max(self.pipelines, key=attrgetter("updated_at"))
get_last_pipeline(mr) == max_by_updated_at(mr.pipelines)

\* lines 321-327: the statuses format_pipeline has an icon for
PIPELINE_ICONS == {"canceled", "running", "skipped", "failed", "success"}

\* lines 358-367 add the row: get_last_pipeline and the lookup of line 329 do not raise
renders(mr) == has_pipeline(mr) /\ get_last_pipeline(mr).status \in PIPELINE_ICONS

\* lines 353-369: the generator is exhausted and sorted, every row is added, the table
\* is printed and main returns
Render ==
    /\ pc = "render"
    /\ \A i \in 1..Len(rows_of(yielded)) : renders(rows_of(yielded)[i])
    /\ table' = Some(rows_of(yielded))
    /\ main_result' = "display_hud"
    /\ lastRun' = RunSummary("complete")
    /\ pc' = "idle"
    /\ UNCHANGED <<feed, now, nextId, g_config, control, merge_requests, updated_at,
                   page, buf, taken, cache_at, gl_merge_request, merge_request, yielded, persisted,
                   store0, runFeed, prevRun, credit, abandoned, overfull, deriveVars,
                   config_file, include_drafts, cli_pc>>

\* the process ends without the generator having returned: its locals and what it
\* had yielded are gone, the two indexes stay as they are
Abandon(how) ==
    /\ lastRun' = RunSummary(how)
    /\ pc' = "idle"
    /\ updated_at' = 0
    /\ page' = 0
    /\ buf' = <<>>
    /\ taken' = 0
    /\ cache_at' = 0
    /\ gl_merge_request' = None
    /\ merge_request' = None
    /\ yielded' = <<>>
    /\ persisted' = <<>>
    /\ store0' = <<>>
    /\ runFeed' = <<>>
    /\ abandoned' = TRUE
    /\ main_result' = how
    /\ UNCHANGED <<feed, now, nextId, g_config, control, merge_requests, prevRun, credit,
                   overfull, deriveVars, config_file, include_drafts, cli_pc, table>>

\* the process is terminated from outside, between any two statements
Interrupt ==
    /\ InRun
    /\ Abandon("killed")

\* a handler that takes the failure for the end of the feed and goes on to the cache loop
propagate_swallowed(how) ==
    /\ pc' = "cache"
    /\ main_result' = how
    /\ UNCHANGED <<feed, now, nextId, g_config, control, merge_requests, updated_at,
                   page, buf, taken, cache_at, gl_merge_request, merge_request, yielded, persisted,
                   store0, runFeed, lastRun, prevRun, credit, abandoned, overfull, deriveVars,
                   config_file, include_drafts, cli_pc, table>>

\* lines 274-277 and 353-357: nothing between the remote call and main catches the
\* exception, so it leaves the generator, sorted() and display_hud
propagate(how) == Abandon(how)

\* a remote call raises: gl.auth() of line 341, projects.get of line 343, the list call
\* of line 258 or the sub-fetches of line 277
RemoteError ==
    /\ \/ pc = "auth"
       \/ pc = "project"
       \/ pc = "next" /\ ~islice_exhausted(taken) /\ buf = <<>>
       \/ pc = "convert"
    /\ propagate("error")

-----------------------------------------------------------------------------
(* The remote changes between runs *)

RemoteFrame == <<g_config, control, merge_requests, pc, updated_at, page, buf, taken, cache_at,
                 gl_merge_request, merge_request, yielded, persisted, store0, runFeed,
                 lastRun, prevRun, abandoned, overfull, deriveVars, cliVars>>

\* an open request is updated: it gets the next timestamp and heads the feed
RemoteTouch ==
    /\ pc = "idle"
    /\ credit > 0
    /\ \E i \in 1..Len(feed) :
         /\ feed[i].id <= MaxTouchId
         /\ feed' = <<PlainMR(feed[i].id, now + 1)>> \o Remove(feed, i)
    /\ now' = now + 1
    /\ credit' = credit - 1
    /\ UNCHANGED nextId
    /\ UNCHANGED RemoteFrame

\* a request is opened
RemoteNew ==
    /\ pc = "idle"
    /\ credit > 0
    /\ feed' = <<PlainMR(nextId, now + 1)>> \o feed
    /\ now' = now + 1
    /\ nextId' = nextId + 1
    /\ credit' = credit - 1
    /\ UNCHANGED RemoteFrame

-----------------------------------------------------------------------------

Init ==
    /\ \E n \in InitSizes :
         /\ feed = InitFeed(n)
         /\ now = n
         /\ nextId = n + 1
         /\ credit = IF n > CAP THEN MaxCapEvents ELSE MaxEvents
    /\ g_config = Config("", 0)
    /\ config_file = Some(Config_dumps(Config("alice", 1)))
    /\ include_drafts = FALSE
    /\ cli_pc = "none"
    /\ main_result = "none"
    /\ table = None
    /\ abandoned = FALSE
    /\ overfull = FALSE
    /\ reloaded = None
    /\ control = <<>>
    /\ merge_requests = <<>>
    /\ pc = "idle"
    /\ updated_at = 0
    /\ page = 0
    /\ buf = <<>>
    /\ taken = 0
    /\ cache_at = 0
    /\ gl_merge_request = None
    /\ merge_request = None
    /\ yielded = <<>>
    /\ persisted = <<>>
    /\ store0 = <<>>
    /\ runFeed = <<>>
    /\ lastRun = NoRun
    /\ prevRun = NoRun
    /\ dmr = None
    /\ last_update = None
    /\ important = None

Next ==
    \/ Start
    \/ Auth
    \/ GetProject
    \/ Open
    \/ IsliceStop
    \/ ListPage
    \/ NextItem
    \/ Check
    \/ Convert
    \/ WriteWatermark
    \/ Put
    \/ Yield
    \/ CacheLoop
    \/ CacheEnd
    \/ Render
    \/ Interrupt
    \/ RemoteError
    \/ RemoteTouch
    \/ RemoteNew

Spec == Init /\ [][Next]_vars

-----------------------------------------------------------------------------
(* Inputs of the derivation layer *)

NoteTimes == {1, 2}

Bodies == {<<"a">>, <<"b", NL, "c">>}

RawNotes ==
    {RawNote(sy, a, r, IF r THEN Some(FALSE) ELSE None, None, t, b, Some("MergeRequest")) :
        sy \in BOOLEAN, a \in Users, r \in BOOLEAN, t \in NoteTimes, b \in Bodies}

RawNoteLists == UNION {[1..n -> RawNotes] : n \in 0..MaxNotes}

OptionalTimes == {None} \cup {Some(Iso(t)) : t \in {1}}

RawSnapshots ==
    {RawMR(1, 2, a, ns, m, c, FALSE) :
        a \in Users, ns \in RawNoteLists, m \in OptionalTimes, c \in OptionalTimes}

\* the view evaluates get_last_update on a snapshot (line 358)
GetLastUpdate ==
    /\ dmr # None
    /\ last_update = None
    /\ last_update' = Some(get_last_update(dmr[1]))
    /\ UNCHANGED <<dmr, important, reloaded, g_config>>
    /\ UNCHANGED <<syncVars, cliVars>>

\* get_important_mrs evaluates is_important on a snapshot (line 295)
IsImportant ==
    /\ dmr # None
    /\ important = None
    /\ important' = Some(is_important(dmr[1], my_username))
    /\ UNCHANGED <<dmr, last_update, reloaded, g_config>>
    /\ UNCHANGED <<syncVars, cliVars>>

InitDerive ==
    /\ \E raw \in RawSnapshots : dmr = Some(MergeRequest_from_gitlab(raw))
    /\ \E u \in Users :
         /\ g_config = Config(u.username, 1)
         /\ config_file = Some(Config_dumps(g_config))
    /\ include_drafts = FALSE
    /\ cli_pc = "none"
    /\ main_result = "display_hud"
    /\ table = None
    /\ abandoned = FALSE
    /\ overfull = FALSE
    /\ reloaded = None
    /\ last_update = None
    /\ important = None
    /\ feed = <<>>
    /\ now = 0
    /\ nextId = 1
    /\ credit = 0
    /\ control = <<>>
    /\ merge_requests = <<>>
    /\ pc = "idle"
    /\ updated_at = 0
    /\ page = 0
    /\ buf = <<>>
    /\ taken = 0
    /\ cache_at = 0
    /\ gl_merge_request = None
    /\ merge_request = None
    /\ yielded = <<>>
    /\ persisted = <<>>
    /\ store0 = <<>>
    /\ runFeed = <<>>
    /\ lastRun = NoRun
    /\ prevRun = NoRun

NextDerive ==
    \/ GetLastUpdate
    \/ IsImportant

SpecDerive == InitDerive /\ [][NextDerive]_vars

-----------------------------------------------------------------------------
(* The command line: main with its three branches *)

\* lines 353-367: get_last_pipeline raises ValueError for a row without pipelines,
\* format_pipeline KeyError for a status without icon
RenderError ==
    /\ pc = "render"
    /\ \E i \in 1..Len(rows_of(yielded)) : ~renders(rows_of(yielded)[i])
    /\ propagate("error")

MainFrame == <<feed, now, nextId, pc, updated_at, page, buf, taken, cache_at,
               gl_merge_request, merge_request, yielded, persisted, store0, runFeed,
               lastRun, prevRun, abandoned, overfull, deriveVars, include_drafts>>

InSetup == cli_pc \in {"write", "edit"}

\* rmtree has removed neither index yet, or one of the two
InClearCache == cli_pc \in {"rmtree", "control_removed", "mrs_removed"}

\* lines 401-402 and 378-381: a new process takes the branch --setup; when there is
\* no file, open("w") creates it, empty; otherwise typer.edit is called at once
MainSetup ==
    /\ pc = "idle"
    /\ cli_pc = "none"
    /\ credit > 0
    /\ credit' = credit - 1
    /\ config_file' = IF config_file = None THEN Some(<<>>) ELSE config_file
    /\ cli_pc' = IF config_file = None THEN "write" ELSE "edit"
    /\ g_config' = Config("", 0)
    /\ table' = None
    /\ UNCHANGED <<MainFrame, control, merge_requests, main_result>>

\* what the steps of --setup leave alone: every run, started before or while the
\* editor was open, goes on
EditFrame == <<MainFrame, credit, g_config, control, merge_requests, table>>

\* lines 381-383: the default text is written, the file closed, and typer.edit
\* waits for the editor
SetupWrite ==
    /\ cli_pc = "write"
    /\ config_file' = Some(generate_default_json)
    /\ cli_pc' = "edit"
    /\ UNCHANGED <<EditFrame, main_result>>

\* lines 383 and 403: the editor ends, the user having left the file as it is or
\* filled it in, and main returns
EditReturns ==
    /\ cli_pc = "edit"
    /\ cli_pc' = "none"
    /\ config_file' \in {config_file, Some(Config_dumps(Config("alice", 1)))}
    /\ main_result' = "setup"
    /\ UNCHANGED EditFrame

\* line 383: the editor cannot be started or ends with an error, typer.edit raises
\* and nothing in main catches it
EditingFailed ==
    /\ cli_pc = "edit"
    /\ cli_pc' = "none"
    /\ main_result' = "error"
    /\ UNCHANGED <<EditFrame, config_file>>

\* the process of --setup is terminated from outside, before the default text is
\* written or while typer.edit waits
SetupInterrupt ==
    /\ InSetup
    /\ cli_pc' = "none"
    /\ main_result' = "killed"
    /\ UNCHANGED <<EditFrame, config_file>>

\* lines 405-406 and 373-375: a new process takes the branch --clear-cache and
\* rmtree starts on the directory that holds the two indexes
MainClearCache ==
    /\ pc = "idle"
    /\ cli_pc = "none"
    /\ credit > 0
    /\ credit' = credit - 1
    /\ cli_pc' = "rmtree"
    /\ g_config' = Config("", 0)
    /\ table' = None
    /\ UNCHANGED <<MainFrame, control, merge_requests, config_file, main_result>>

ClearFrame == <<MainFrame, credit, g_config, config_file, table>>

\* line 375: rmtree removes the directory of the control index, in the order in
\* which the file system lists the two; after the second of them main returns
RmtreeControl ==
    /\ cli_pc \in {"rmtree", "mrs_removed"}
    /\ control' = <<>>
    /\ cli_pc' = IF cli_pc = "rmtree" THEN "control_removed" ELSE "none"
    /\ main_result' = IF cli_pc = "rmtree" THEN main_result ELSE "clear_cache"
    /\ UNCHANGED <<ClearFrame, merge_requests>>

\* line 375: rmtree removes the directory of the Record Store
RmtreeMrs ==
    /\ cli_pc \in {"rmtree", "control_removed"}
    /\ merge_requests' = <<>>
    /\ cli_pc' = IF cli_pc = "rmtree" THEN "mrs_removed" ELSE "none"
    /\ main_result' = IF cli_pc = "rmtree" THEN main_result ELSE "clear_cache"
    /\ UNCHANGED <<ClearFrame, control>>

\* the process of --clear-cache is terminated from outside, before rmtree is done
ClearCacheInterrupt ==
    /\ InClearCache
    /\ cli_pc' = "none"
    /\ main_result' = "killed"
    /\ UNCHANGED <<ClearFrame, control, merge_requests>>

\* lines 409-410 with no file at CONFIG_PATH: open() raises FileNotFoundError
MainNoConfig ==
    /\ pc = "idle"
    /\ credit > 0
    /\ credit' = credit - 1
    /\ config_file = None
    /\ main_result' = "FileNotFoundError"
    /\ g_config' = Config("", 0)
    /\ table' = None
    /\ UNCHANGED <<MainFrame, control, merge_requests, config_file, cli_pc>>

\* lines 409-410 and 28-29 with a file that holds no json: json.load raises
MainBadConfig ==
    /\ pc = "idle"
    /\ credit > 0
    /\ credit' = credit - 1
    /\ config_file # None
    /\ JSONDecodeError(config_file[1])
    /\ main_result' = "JSONDecodeError"
    /\ g_config' = Config("", 0)
    /\ table' = None
    /\ UNCHANGED <<MainFrame, control, merge_requests, config_file, cli_pc>>

\* an open request is merged or closed: it leaves the feed of open requests
RemoteClose ==
    /\ pc = "idle"
    /\ credit > 0
    /\ \E i \in 1..Len(feed) : feed' = Remove(feed, i)
    /\ now' = now + 1
    /\ credit' = credit - 1
    /\ UNCHANGED nextId
    /\ UNCHANGED RemoteFrame

\* the kinds of request of these feeds: somebody else's, somebody else's draft, my own,
\* somebody else's without a pipeline, somebody else's with a pending pipeline
MRKinds == {"theirs", "draft", "mine", "bare", "pending"}

KindMR(kind, id, t) ==
    RawMRFull(id, t, IF kind = "mine" THEN Alice ELSE Bob, <<>>, None, None,
              kind = "draft", RawApprovals(<<>>, t),
              IF kind = "bare" THEN <<>>
              ELSE IF kind = "pending" THEN <<RawPipeline(1, "pending", t)>>
              ELSE <<RawPipeline(1, "success", t)>>, FALSE)

\* a first invocation is still to come: empty indexes, no run under way
NothingRunYet ==
    /\ g_config = Config("", 0)
    /\ main_result = "none"
    /\ table = None
    /\ abandoned = FALSE
    /\ overfull = FALSE
    /\ control = <<>>
    /\ merge_requests = <<>>
    /\ pc = "idle"
    /\ updated_at = 0
    /\ page = 0
    /\ buf = <<>>
    /\ taken = 0
    /\ cache_at = 0
    /\ gl_merge_request = None
    /\ merge_request = None
    /\ yielded = <<>>
    /\ persisted = <<>>
    /\ store0 = <<>>
    /\ runFeed = <<>>
    /\ lastRun = NoRun
    /\ prevRun = NoRun
    /\ dmr = None
    /\ last_update = None
    /\ important = None
    /\ reloaded = None

InitMain ==
    /\ \E n \in 0..MaxMainFeed :
         /\ feed = InitFeed(n)
         /\ now = n
         /\ nextId = n + 1
    /\ credit = MaxMainEvents
    /\ config_file \in {None, Some(Config_dumps(Config("alice", 1)))}
    /\ include_drafts = FALSE
    /\ cli_pc = "none"
    /\ NothingRunYet

NextMain ==
    \/ MainSetup
    \/ SetupWrite
    \/ EditReturns
    \/ EditingFailed
    \/ SetupInterrupt
    \/ MainClearCache
    \/ RmtreeControl
    \/ RmtreeMrs
    \/ ClearCacheInterrupt
    \/ MainNoConfig
    \/ MainBadConfig
    \/ Start
    \/ Auth
    \/ GetProject
    \/ Open
    \/ ListPage
    \/ NextItem
    \/ Check
    \/ Convert
    \/ WriteWatermark
    \/ Put
    \/ Yield
    \/ CacheLoop
    \/ CacheEnd
    \/ Render
    \/ Interrupt
    \/ RemoteClose

SpecMain == InitMain /\ [][NextMain]_vars

-----------------------------------------------------------------------------
(* The view: runs over feeds of requests that differ in author, draft flag and *)
(* pipelines, with the option --include-drafts on and off                      *)

InitView ==
    /\ \E n \in 0..MaxViewFeed : \E kinds \in [1..n -> MRKinds] :
         /\ feed = [i \in 1..n |-> KindMR(kinds[i], n + 1 - i, n + 1 - i)]
         /\ now = n
         /\ nextId = n + 1
    /\ credit = MaxViewEvents
    /\ config_file = Some(Config_dumps(Config("alice", 1)))
    /\ include_drafts \in BOOLEAN
    /\ cli_pc = "none"
    /\ NothingRunYet

NextView ==
    \/ Start
    \/ Auth
    \/ GetProject
    \/ Open
    \/ ListPage
    \/ NextItem
    \/ Check
    \/ Convert
    \/ WriteWatermark
    \/ Put
    \/ Yield
    \/ CacheLoop
    \/ CacheEnd
    \/ Render
    \/ RenderError
    \/ Interrupt
    \/ RemoteNew

SpecView == InitView /\ [][NextView]_vars

-----------------------------------------------------------------------------
(* The Record Store alone: a snapshot is written (lines 279-281) and read back *)
(* (lines 285-286)                                                             *)

\* what the remote reports of a note's resolution: not resolvable, open, resolved
\* instants around the ends of a minute, a day, a February and a year:
\* 1970-01-01T00:00:59Z, 1970-01-01T12:00:00Z, 1970-01-01T23:59:59Z,
\* 1970-01-02T00:00:00Z, 2000-02-29T23:59:59Z, 2024-03-01T00:00:00Z,
\* 2025-01-01T00:00:00Z
\* written as days since 1970-01-01 and seconds of the day
EndOfMinute == 0 * 86400 + 59
Noon == 0 * 86400 + 12 * 3600
EndOfDay == 0 * 86400 + 86399
NextDay == 1 * 86400
LeapDay == 11016 * 86400 + 86399
FirstOfMarch == 19783 * 86400
NewYear == 20089 * 86400


\* resolvable, resolved, resolved_by and noteable_type of a raw note
Resolutions ==
    {<<FALSE, None, None, None>>,
     <<FALSE, None, None, Some("MergeRequest")>>,
     <<TRUE, Some(FALSE), None, Some("MergeRequest")>>,
     <<TRUE, Some(TRUE), Some(Alice), Some("MergeRequest")>>}

StoreNotes ==
    {RawNote(FALSE, Bob, r[1], r[2], r[3], IF r[1] THEN Noon ELSE EndOfMinute,
             IF r[4] = None THEN <<"a">>
             ELSE IF r[1] THEN <<QUOTE, BACKSLASH, "n", NL>> ELSE <<"b", NL, "c">>,
             r[4]) : r \in Resolutions}

StoreNoteLists == UNION {[1..n -> StoreNotes] : n \in 0..MaxNotes}

StorePipelines == {RawPipeline(1, "success", NextDay), RawPipeline(12, "failed", FirstOfMarch)}

StorePipelineLists == UNION {[1..n -> StorePipelines] : n \in 0..MaxPipelines}

\* as many approvers as there are pipelines, two at most
StoreApprovers(ps) == SubSeq(<<Alice, Bob>>, 1, IF Len(ps) < 2 THEN Len(ps) ELSE 2)

\* merged_at and closed_at of a raw request: open, merged, closed
StoreEnds == {<<None, None>>, <<Some(Iso(LeapDay)), None>>, <<None, Some(Iso(Noon))>>}

StoreSnapshots ==
    {RawMRFull(1, NewYear, Bob, ns, e[1], e[2], FALSE,
               RawApprovals(StoreApprovers(ps), EndOfDay), ps, FALSE) :
        ns \in StoreNoteLists, e \in StoreEnds, ps \in StorePipelineLists}

\* everything but the Record Store and the snapshot at hand, at rest
AtRest ==
    /\ feed = <<>>
    /\ now = 0
    /\ nextId = 1
    /\ credit = 0
    /\ control = <<>>
    /\ pc = "idle"
    /\ updated_at = 0
    /\ page = 0
    /\ buf = <<>>
    /\ taken = 0
    /\ cache_at = 0
    /\ gl_merge_request = None
    /\ merge_request = None
    /\ yielded = <<>>
    /\ persisted = <<>>
    /\ store0 = <<>>
    /\ runFeed = <<>>
    /\ lastRun = NoRun
    /\ prevRun = NoRun
    /\ abandoned = FALSE
    /\ overfull = FALSE
    /\ g_config = Config("alice", 1)
    /\ config_file = Some(Config_dumps(g_config))
    /\ include_drafts = FALSE
    /\ cli_pc = "none"
    /\ main_result = "display_hud"
    /\ table = None
    /\ last_update = None
    /\ important = None

\* lines 279-281 on the snapshot at hand, the text written piece by piece
StorePut ==
    /\ dmr # None
    /\ merge_requests = <<>>
    /\ merge_requests' = store_set(merge_requests, dmr[1].id,
                                 dumps(converter_unstructure(dmr[1])))
    /\ UNCHANGED <<feed, now, nextId, control, pc, updated_at, page, buf, taken, cache_at,
                   gl_merge_request, merge_request, yielded, persisted, store0, runFeed,
                   lastRun, prevRun, credit, abandoned, overfull, cliVars, g_config,
                   deriveVars>>

\* lines 285-286 on a stored text, read piece by piece
StoreLoad ==
    /\ reloaded = None
    /\ \E k \in DOMAIN merge_requests :
         reloaded' = Some(converter_structure(loads(merge_requests[k].value)))
    /\ UNCHANGED <<syncVars, cliVars, g_config, dmr, last_update, important>>

InitStore ==
    /\ \E raw \in StoreSnapshots : dmr = Some(MergeRequest_from_gitlab(raw))
    /\ merge_requests = <<>>
    /\ reloaded = None
    /\ AtRest

NextStore ==
    \/ StorePut
    \/ StoreLoad

SpecStore == InitStore /\ [][NextStore]_vars

-----------------------------------------------------------------------------
(* The engine over a feed of exactly as many open requests as one run takes, *)
(* with every run left to end by itself                                      *)

InitFull ==
    /\ feed = InitFeed(CAP)
    /\ now = CAP
    /\ nextId = CAP + 1
    /\ credit = MaxFullEvents
    /\ g_config = Config("", 0)
    /\ config_file = Some(Config_dumps(Config("alice", 1)))
    /\ include_drafts = FALSE
    /\ cli_pc = "none"
    /\ main_result = "none"
    /\ table = None
    /\ abandoned = FALSE
    /\ overfull = FALSE
    /\ control = <<>>
    /\ merge_requests = <<>>
    /\ pc = "idle"
    /\ updated_at = 0
    /\ page = 0
    /\ buf = <<>>
    /\ taken = 0
    /\ cache_at = 0
    /\ gl_merge_request = None
    /\ merge_request = None
    /\ yielded = <<>>
    /\ persisted = <<>>
    /\ store0 = <<>>
    /\ runFeed = <<>>
    /\ lastRun = NoRun
    /\ prevRun = NoRun
    /\ dmr = None
    /\ last_update = None
    /\ important = None
    /\ reloaded = None

\* no run is terminated and no remote call fails
NextFull ==
    \/ Start
    \/ Auth
    \/ GetProject
    \/ Open
    \/ IsliceStop
    \/ ListPage
    \/ NextItem
    \/ Check
    \/ Convert
    \/ WriteWatermark
    \/ Put
    \/ Yield
    \/ CacheLoop
    \/ CacheEnd
    \/ Render
    \/ RemoteTouch
    \/ RemoteNew

SpecFull == InitFull /\ [][NextFull]_vars

-----------------------------------------------------------------------------
(* Vocabulary of the properties *)

MaxOf(a, b) == IF a >= b THEN a ELSE b

IdsOf(s) == {s[i].id : i \in 1..Len(s)}

NoRepeatedId(s) == \A i, j \in 1..Len(s) : i # j => s[i].id # s[j].id

RECURSIVE Converted(_)
Converted(f) ==
    IF f = <<>> THEN <<>> ELSE <<MergeRequest_from_gitlab(Head(f))>> \o Converted(Tail(f))

\* the longest prefix of the feed whose requests are all newer than W
RECURSIVE NewerPrefix(_, _)
NewerPrefix(f, W) ==
    IF f = <<>> \/ Ts(Head(f)) <= W THEN <<>> ELSE <<Head(f)>> \o NewerPrefix(Tail(f), W)

FirstN(s, n) == SubSeq(s, 1, IF n < Len(s) THEN n ELSE Len(s))

IsPrefixOf(s, t) == Len(s) <= Len(t) /\ s = SubSeq(t, 1, Len(s))

RECURSIVE MaxUpdatedAt(_, _)
MaxUpdatedAt(s, base) ==
    IF s = <<>> THEN base ELSE MaxUpdatedAt(Tail(s), MaxOf(base, Head(s).updated_at))

Watermark == control_get(control)

CompleteRunEnded == pc = "idle" /\ lastRun.outcome = "complete"

\* the fetch loop has ended and the cache loop has not read a value yet
FetchLoopEnded == pc = "cache" /\ cache_at = 0

-----------------------------------------------------------------------------
\* C1: the persisted watermark never decreases, and the only step that changes it is
\* the write of line 278, which leaves max(stored value, the snapshot's updated_at).
C1_WatermarkMonotone ==
    [][/\ control_get(control') >= control_get(control)
       /\ control_get(control') # control_get(control) => pc = "watermark"
       /\ (pc = "watermark" /\ pc' = "put") =>
             control_get(control') = MaxOf(control_get(control), merge_request[1].updated_at)
      ]_vars

\* the write of line 278 has run for a snapshot older than the stored watermark
C1_Witness ==
    /\ pc = "put"
    /\ Watermark > merge_request[1].updated_at
    /\ Watermark > updated_at

\* C2 as stated: when the fetch loop has ended, what it fetched is the whole prefix
\* of the feed newer than W.
C2_WholePrefix ==
    FetchLoopEnded =>
        /\ persisted = Converted(NewerPrefix(runFeed, updated_at))
        /\ yielded = persisted

\* C2, amended: what the fetch loop has fetched is always a prefix of the first 50
\* requests of the feed's newer-than-W prefix, and all of them once the loop has ended;
\* a request at or below W, and everything after it, is never processed.
C2_CutoffUnderCap ==
    LET want == Converted(FirstN(NewerPrefix(runFeed, updated_at), CAP))
    IN /\ (InFetchLoop \/ FetchLoopEnded) =>
             IsPrefixOf(persisted, want) /\ IsPrefixOf(yielded, persisted)
       /\ pc \in {"watermark", "put"} => IsPrefixOf(Append(persisted, merge_request[1]), want)
       /\ FetchLoopEnded => persisted = want /\ yielded = want
       /\ pc \in {"cache", "render"} => persisted = want /\ IsPrefixOf(persisted, yielded)

\* the loop stopped at a request at the watermark after fetching two newer ones
C2_Witness ==
    /\ pc = "cache"
    /\ updated_at > 0
    /\ Len(persisted) = 2
    /\ Len(runFeed) > 2
    /\ Ts(runFeed[3]) = updated_at

\* C3 as stated: inside the fetch loop the persisted watermark is never ahead of the
\* last snapshot this run has put in the Record Store (of W when it has put none).
C3_WatermarkBehindStore ==
    InFetchLoop =>
        Watermark <= (IF persisted = <<>> THEN updated_at
                      ELSE persisted[Len(persisted)].updated_at)

\* C4 as stated: after an interrupted run and then a complete run over the same feed,
\* every request of the feed newer than the interrupted run's W is in the Record Store.
C4_NothingSkipped ==
    (/\ pc = "idle"
     /\ lastRun.outcome = "complete"
     /\ prevRun.outcome \in {"killed", "error"}
     /\ lastRun.at = prevRun.at) =>
        \A i \in 1..Len(runFeed) :
            Ts(runFeed[i]) > prevRun.W =>
                /\ runFeed[i].id \in DOMAIN merge_requests
                /\ stored(merge_requests, runFeed[i].id)
                     = MergeRequest_from_gitlab(runFeed[i])

\* C5 as stated: when a complete run left requests of the feed unfetched because of
\* the cap, the next complete run over the same feed fetches some of them.
C5_ProgressUnderCap ==
    (/\ pc = "idle"
     /\ lastRun.outcome = "complete"
     /\ prevRun.outcome = "complete"
     /\ lastRun.at = prevRun.at
     /\ Len(NewerPrefix(runFeed, prevRun.W)) > CAP) =>
        lastRun.fetched > 0

\* C6: a complete run yields the snapshots it fetched and then stored ones, one
\* snapshot for every id in the Record Store and no id twice.
C6_EachIdOnce ==
    CompleteRunEnded =>
        /\ NoRepeatedId(yielded)
        /\ IdsOf(yielded) = DOMAIN merge_requests
        /\ IsPrefixOf(persisted, yielded)

\* a complete run that overwrote a stored request and yielded another from the store
C6_Witness ==
    /\ CompleteRunEnded
    /\ \E k \in DOMAIN store0 : k \in IdsOf(persisted)
    /\ Len(yielded) > Len(persisted)

\* C7: after a complete run the watermark is max(W, newest fetched updated_at), every
\* fetched snapshot is what the Record Store holds under its id, and every other entry
\* is the one the store held before the run.
C7_RunEffect ==
    CompleteRunEnded =>
        /\ Watermark = MaxUpdatedAt(persisted, updated_at)
        /\ \A i \in 1..Len(persisted) :
              /\ persisted[i].id \in DOMAIN merge_requests
              /\ stored(merge_requests, persisted[i].id) = persisted[i]
        /\ DOMAIN merge_requests = DOMAIN store0 \cup IdsOf(persisted)
        /\ \A k \in DOMAIN store0 : k \notin IdsOf(persisted) => merge_requests[k] = store0[k]

\* a complete run that fetched two requests and left an older stored one alone
C7_Witness ==
    /\ CompleteRunEnded
    /\ Len(persisted) = 2
    /\ updated_at > 0
    /\ \E k \in DOMAIN store0 : k \notin IdsOf(persisted)

-----------------------------------------------------------------------------
(* Properties of the derivation layer, under SpecDerive *)

HasRelevant(mr) == \E i \in 1..Len(mr.notes) : mr.notes[i].resolvable \/ mr.notes[i].system

\* the text before the first line break
LinePrefix(text) ==
    IF \E i \in 1..Len(text) : text[i] = NL
    THEN SubSeq(text, 1, (CHOOSE i \in 1..Len(text) :
                             text[i] = NL /\ \A j \in 1..(i - 1) : text[j] # NL) - 1)
    ELSE text

\* C8: is_important is true exactly when the snapshot is neither merged nor closed
\* and its last update was not authored by the viewing user.
C8_Importance ==
    (important # None /\ last_update # None) =>
        important[1] = (/\ ~IsSet(dmr[1].merged_at)
                        /\ ~IsSet(dmr[1].closed_at)
                        /\ last_update[1].author.username # g_config.my_username)

\* a closed, unmerged snapshot whose last update is another user's was found unimportant
C8_Witness ==
    /\ important = Some(FALSE)
    /\ last_update # None
    /\ IsSet(dmr[1].closed_at)
    /\ ~IsSet(dmr[1].merged_at)
    /\ last_update[1].author.username # g_config.my_username
    /\ HasRelevant(dmr[1])

\* C9: with a relevant note present, the last update is that of a relevant note whose
\* updated_at is the greatest among the relevant notes: its author, its updated_at, and
\* the first line of its body when it is a system note, the whole body otherwise.
C9_LastRelevantNote ==
    (last_update # None /\ HasRelevant(dmr[1])) =>
        LET ns == dmr[1].notes
            rel == {i \in 1..Len(ns) : ns[i].resolvable \/ ns[i].system}
        IN \E i \in rel :
              /\ \A j \in rel : ns[j].updated_at <= ns[i].updated_at
              /\ last_update[1] =
                    [author |-> ns[i].author,
                     content |-> IF ns[i].system THEN LinePrefix(ns[i].body) ELSE ns[i].body,
                     updated_at |-> ns[i].updated_at]

\* a newer note that is not relevant lost to an older system note of several lines
C9_Witness ==
    /\ last_update # None
    /\ Len(dmr[1].notes) = 2
    /\ dmr[1].notes[1].system /\ dmr[1].notes[1].updated_at = 1
    /\ Len(dmr[1].notes[1].body) > 1
    /\ ~dmr[1].notes[2].system /\ ~dmr[1].notes[2].resolvable
    /\ dmr[1].notes[2].updated_at = 2
    /\ last_update[1].updated_at = 1
    /\ last_update[1].content = <<"b">>

\* C10: with no system and no resolvable note, the last update is the request's author,
\* the text "MR Created" and the request's updated_at.
C10_Fallback ==
    (last_update # None /\ ~HasRelevant(dmr[1])) =>
        last_update[1] = [author |-> dmr[1].author, content |-> MR_CREATED,
                          updated_at |-> dmr[1].updated_at]

\* the fallback was returned for a snapshot that has notes, none of them relevant
C10_Witness ==
    /\ last_update # None
    /\ Len(dmr[1].notes) > 0
    /\ ~HasRelevant(dmr[1])
    /\ dmr[1].notes[1].author # dmr[1].author
    /\ last_update[1].content = MR_CREATED

-----------------------------------------------------------------------------
(* Further properties of the synchronisation engine, under Spec *)

\* C17: in every reachable state, those inside the fetch loop and those left by an
\* interruption included, every snapshot in the Record Store has updated_at <= the
\* persisted watermark.
C17_StoreBehindWatermark ==
    \A k \in DOMAIN merge_requests : stored(merge_requests, k).updated_at <= Watermark

\* a killed run has left a snapshot newer than the watermark it started from
C17_Witness ==
    /\ pc = "idle"
    /\ lastRun.outcome = "killed"
    /\ \E k \in DOMAIN merge_requests :
          /\ stored(merge_requests, k).updated_at > lastRun.W
          /\ stored(merge_requests, k).updated_at = Watermark

\* C18: one run converts, persists and yields at most 50 requests from the fetch loop,
\* and writes the Record Store and the watermark at most 50 times each.
C18_AtMostCap ==
    /\ taken <= CAP
    /\ Len(persisted) <= CAP
    /\ (InFetchLoop \/ FetchLoopEnded) => Len(yielded) <= CAP
    /\ pc \in {"check", "convert", "watermark", "put"} => Len(persisted) < CAP

\* the loop ended by the cap with a request of the feed left unfetched
C18_Witness ==
    /\ pc = "cache"
    /\ Len(persisted) = CAP
    /\ Len(runFeed) > CAP
    /\ Ts(runFeed[CAP + 1]) > updated_at

\* C14 as stated: the fetch loop ends for every finite feed: once a page request has
\* come back empty the feed is exhausted, and no further page is requested.
C14_StopsAtFeedEnd ==
    page <= LastPage(runFeed) + 1

-----------------------------------------------------------------------------
(* Properties of the whole invocation: errors, the view *)

\* C11: a table is printed only by an invocation whose sync run completed and in which
\* no remote call failed; an invocation in which a remote call failed has ended, with
\* the run recorded as failed and no table printed.
C11_ErrorsSurface ==
    /\ table # None =>
          /\ pc = "idle"
          /\ main_result = "display_hud"
          /\ lastRun.outcome = "complete"
    /\ main_result = "error" =>
          /\ pc = "idle"
          /\ lastRun.outcome = "error"
          /\ table = None

\* a remote call failed after the run had already fetched and stored requests
C11_Witness ==
    /\ main_result = "error"
    /\ lastRun.outcome = "error"
    /\ lastRun.fetched > 0
    /\ DOMAIN merge_requests # {}
    /\ table = None

-----------------------------------------------------------------------------
(* Properties of the Record Store, under SpecStore *)

\* C13: unstructuring a snapshot, encoding it to json, decoding and structuring it
\* back gives the snapshot again, so the snapshot read back from the Record Store
\* equals the one that was written; and it is the value the runs of the engine keep
\* in place of the text.
C13_RoundTrip ==
    reloaded # None =>
        /\ reloaded = dmr
        /\ stored(store_put(<<>>, dmr[1]), dmr[1].id) = reloaded[1]

\* a request merged on the last second of a leap day, with a resolved note whose
\* body holds the characters json escapes and a note without type, two approvers
\* and two pipelines, has been written and read back
C13_Witness ==
    /\ reloaded # None
    /\ dmr[1].merged_at = Some(LeapDay)
    /\ ~IsSet(dmr[1].closed_at)
    /\ Len(dmr[1].notes) = 2
    /\ IsSet(dmr[1].notes[1].resolved_by)
    /\ dmr[1].notes[1].body = <<QUOTE, BACKSLASH, "n", NL>>
    /\ ~IsSet(dmr[1].notes[2].resolved)
    /\ ~IsSet(dmr[1].notes[2].type)
    /\ Len(dmr[1].approvals.approved_by) = 2
    /\ Len(dmr[1].pipelines) = 2

-----------------------------------------------------------------------------
(* Properties of the command line, under SpecMain, and of the view, under SpecView *)

\* C12 as stated: an invocation with neither option and no configuration file does
\* not fail for the missing file, and no run is under way without a configuration file.
C12_SetupOnFirstRun ==
    /\ main_result # "FileNotFoundError"
    /\ InRun => config_file # None

\* C16 as stated: every request a printed table presents is in the open feed that
\* the invocation read.
C16_ClosedLeaveView ==
    table # None =>
        \A i \in 1..Len(table[1]) : table[1][i].id \in IdsOf(runFeed)

kept_by_view(mr) == is_important(mr, my_username) /\ (mr.is_draft => include_drafts)

\* C19: the rows of a printed table are the yielded snapshots that are important and,
\* unless drafts are included, not drafts, each as often as it was yielded, in
\* descending order of updated_at.
C19_ViewAssembly ==
    table # None =>
        LET rows == table[1]
        IN /\ \A i \in 1..Len(rows) :
                 /\ kept_by_view(rows[i])
                 /\ \E j \in 1..Len(yielded) : yielded[j] = rows[i]
           /\ \A j \in 1..Len(yielded) :
                 kept_by_view(yielded[j]) => \E i \in 1..Len(rows) : rows[i] = yielded[j]
           /\ Len(rows) = Cardinality({j \in 1..Len(yielded) : kept_by_view(yielded[j])})
           /\ \A i \in 1..(Len(rows) - 1) : rows[i].updated_at >= rows[i + 1].updated_at

\* a table of two rows, one of them a draft kept by the option, in another order than
\* the run yielded them
C19_Witness ==
    /\ table # None
    /\ Len(table[1]) = 2
    /\ table[1] # yielded
    /\ include_drafts
    /\ \E i \in 1..2 : table[1][i].is_draft

-----------------------------------------------------------------------------
(* Watermark coverage, under SpecFull *)

InStoreAsFed(raw) ==
    /\ raw.id \in DOMAIN merge_requests
    /\ stored(merge_requests, raw.id) = MergeRequest_from_gitlab(raw)

====
